---------------------------- MODULE Spec2Model ----------------------------
(***************************************************************************)
(* Verification model of lib/indexedlog/src/index.rs: the on-disk entry    *)
(* records (Radix, Leaf, Link), their readers and writers, the dirty/clean *)
(* offset translation, and the flush that serializes the dirty subgraph;   *)
(* and of lfs_server/src/config.rs: the configuration handle and the       *)
(* thread that polls its source.                                           *)
(*                                                                         *)
(* A u64 is kept at its full width.  It is held as its NDigits base-128    *)
(* digits, least significant first (the groups a VLQ emits), so that bit   *)
(* 63 and the ten-byte encodings are the real ones.                        *)
(***************************************************************************)
EXTENDS Integers, Sequences, FiniteSets, TLC

VARIABLES
    rec,         \* the record under test: Radix, Leaf or Link
    offset_map,  \* HashMap<u64, u64> handed to write_to
    buf,         \* the byte buffer / writer (Vec<u8>)
    start,       \* position in buf at which the record was written
    pc,          \* "init", "written", "panicked", "tampered", "translated"
    result,      \* what the last read_from returned
    dirty,       \* the in-memory staging area: the dirty nodes in allocation order
    root,        \* offset of the root Radix (dirty or clean)
    todo,        \* flush: dirty offsets still to be written, children first
    history,     \* the (key, value) pairs inserted so far
    durable,     \* the successful flushes: file length, root and inserts of each
    will_exit,   \* Arc<AtomicBool> shared with the poller thread
    inner,       \* ServerConfigInner behind the RwLock of ServerConfigHandle
    lock,        \* the RwLock: the threads holding it for read, and for write
    ppc,         \* position of the poller thread
    observed,    \* what the poller's last will_exit.load returned
    elapsed,     \* last_poll.elapsed() in seconds, counted up to fetch_interval + 1
    slept,       \* seconds spent in the current thread::sleep
    loader,      \* the ConfigLoader: "Configerator", "File" or "Default"
    entity,      \* the poller's local: the Entity that load returned
    outcome,     \* outcome of the poller's last poll, as it was logged
    installed,   \* the entities whose configuration was stored, oldest first
    rpc,         \* position of each reader thread
    got          \* what each reader's last get returned

recvars == <<rec, offset_map, buf, start, pc, result>>
idxvars == <<dirty, root, todo, history, durable>>
cfgvars == <<will_exit, inner, lock, ppc, observed, elapsed, slept, loader, entity,
             outcome, installed, rpc, got>>
vars == <<rec, offset_map, buf, start, pc, result, dirty, root, todo, history, durable,
          will_exit, inner, lock, ppc, observed, elapsed, slept, loader, entity,
          outcome, installed, rpc, got>>

----------------------------------------------------------------------------
(* u64 arithmetic *)

WordBits == 64
VlqBits == 7
VlqBase == 2 ^ VlqBits
NDigits == (WordBits + VlqBits - 1) \div VlqBits
TopDigitMax == 2 ^ (WordBits - (NDigits - 1) * VlqBits) - 1

\* 1u64 << b
ShiftLeftOne(b) ==
    [i \in 1 .. NDigits |-> IF i = (b \div VlqBits) + 1 THEN 2 ^ (b % VlqBits) ELSE 0]

\* a small natural number as a u64 (n < 2^28)
FromNat(n) ==
    [i \in 1 .. NDigits |-> IF i > 4 THEN 0 ELSE (n \div (VlqBase ^ (i - 1))) % VlqBase]

Zero == FromNat(0)

MaxU64 == [i \in 1 .. NDigits |-> IF i = NDigits THEN TopDigitMax ELSE VlqBase - 1]

\* a >= b on u64
GreaterEq(a, b) ==
    LET diff == {i \in 1 .. NDigits : a[i] # b[i]}
    IN  IF diff = {}
        THEN TRUE
        ELSE LET top == CHOOSE i \in diff : \A j \in diff : j <= i
             IN  a[top] > b[top]

\* v - 1 for v > 0
Pred(v) ==
    LET low == CHOOSE i \in 1 .. NDigits : v[i] # 0 /\ \A j \in 1 .. (i - 1) : v[j] = 0
    IN  [i \in 1 .. NDigits |->
            IF i < low THEN VlqBase - 1 ELSE IF i = low THEN v[i] - 1 ELSE v[i]]

----------------------------------------------------------------------------
(* Constants of the file format *)

DIRTY_OFFSET == ShiftLeftOne(63)

TYPE_HEAD == 0
TYPE_ROOT == 1
TYPE_RADIX == 2
TYPE_LEAF == 3
TYPE_LINK == 4
TYPE_KEY == 5

RadixChildren == 16

IsDirty(v) == GreaterEq(v, DIRTY_OFFSET)

----------------------------------------------------------------------------
(* Results *)

Ok(v) == [tag |-> "Ok", val |-> v]
Err(kind) == [tag |-> "Err", kind |-> kind]
Panic == [tag |-> "Panic"]
NoResult == [op |-> "None", offset |-> 0, out |-> [tag |-> "None"]]

----------------------------------------------------------------------------
(* VLQ codec (vlqencoding crate) *)

\* number of VLQ bytes of v: up to and including its highest non-zero group
VlqLen(v) ==
    LET nz == {i \in 1 .. NDigits : v[i] # 0}
    IN  IF nz = {} THEN 1 ELSE CHOOSE i \in nz : \A j \in nz : j <= i

\* write_vlq: seven payload bits per byte, high bit set on continuation
write_vlq(v) ==
    [i \in 1 .. VlqLen(v) |-> IF i < VlqLen(v) THEN v[i] + VlqBase ELSE v[i]]

RECURSIVE read_vlq_loop(_, _, _, _)
read_vlq_loop(b, offset, size, value) ==
    IF offset + size >= Len(b)
    THEN Err("UnexpectedEof")
    ELSE LET byte == b[offset + size + 1]
             base == byte % VlqBase
         IN  IF size >= NDigits \/ (size = NDigits - 1 /\ base > TopDigitMax)
             THEN Err("InvalidData")
             ELSE LET value1 == [value EXCEPT ![size + 1] = base]
                  IN  IF byte < VlqBase
                      THEN Ok([v |-> value1, len |-> size + 1])
                      ELSE read_vlq_loop(b, offset, size + 1, value1)

\* read_vlq_at(offset): the decoded u64 and the number of bytes consumed
read_vlq_at(b, offset) == read_vlq_loop(b, offset, 0, Zero)

----------------------------------------------------------------------------
(* Offset translation and type check *)

\* translate_offset with the dirty test dropped: every offset is emitted as it is
translate_offset_Untranslated(v, map) == Ok(v)

\* translate_offset that looks up every non-null offset, clean ones included
translate_offset_LookupAll(v, map) ==
    IF v # Zero
    THEN IF v \in DOMAIN map THEN Ok(map[v]) ELSE Panic
    ELSE Ok(v)

\* Convert a possibly "dirty" offset to a non-dirty offset.  The unwrap() of a
\* missing entry panics.
translate_offset(v, map) ==
    IF GreaterEq(v, DIRTY_OFFSET)
    THEN IF v \in DOMAIN map THEN Ok(map[v]) ELSE Panic
    ELSE Ok(v)

\* check_type that accepts any byte that is present
check_type_AnyType(b, offset, expected) ==
    IF offset >= Len(b) THEN Err("InvalidData") ELSE Ok(TRUE)

\* Check type for an on-disk entry
check_type(b, offset, expected) ==
    IF offset >= Len(b)
    THEN Err("InvalidData")
    ELSE IF b[offset + 1] # expected THEN Err("InvalidData") ELSE Ok(TRUE)

----------------------------------------------------------------------------
(* Radix *)

Radix(offsets, link_offset) ==
    [kind |-> "Radix", offsets |-> offsets, link_offset |-> link_offset]

NoChildren == [i \in 0 .. (RadixChildren - 1) |-> Zero]

\* one iteration of the reader's loop that accepts any non-zero jump-table byte
Radix_read_step_NoJumpCheck(b, offset, jumptable, i, st) ==
    IF jumptable[i] # 0
    THEN LET r == read_vlq_at(b, offset + st.pos)
         IN  IF r.tag # "Ok"
             THEN r
             ELSE Ok([pos |-> st.pos + r.val.len,
                      offsets |-> [st.offsets EXCEPT ![i] = r.val.v]])
    ELSE Ok(st)

\* one iteration of the reader's loop that stores every child in slot 0
Radix_read_step_Slot0(b, offset, jumptable, i, st) ==
    IF jumptable[i] # 0
    THEN IF jumptable[i] # st.pos
         THEN Err("InvalidData")
         ELSE LET r == read_vlq_at(b, offset + st.pos)
              IN  IF r.tag # "Ok"
                  THEN r
                  ELSE Ok([pos |-> st.pos + r.val.len,
                           offsets |-> [st.offsets EXCEPT ![0] = r.val.v]])
    ELSE Ok(st)

\* one iteration of `for i in 0..16` of Radix::read_from; st = (pos, offsets)
Radix_read_step(b, offset, jumptable, i, st) ==
    IF jumptable[i] # 0
    THEN IF jumptable[i] # st.pos
         THEN Err("InvalidData")
         ELSE LET r == read_vlq_at(b, offset + st.pos)
              IN  IF r.tag # "Ok"
                  THEN r
                  ELSE Ok([pos |-> st.pos + r.val.len,
                           offsets |-> [st.offsets EXCEPT ![i] = r.val.v]])
    ELSE Ok(st)

RECURSIVE Radix_read_loop(_, _, _, _, _)
Radix_read_loop(b, offset, jumptable, i, st) ==
    IF i = RadixChildren
    THEN Ok(st)
    ELSE LET r == Radix_read_step(b, offset, jumptable, i, st)
         IN  IF r.tag # "Ok" THEN r ELSE Radix_read_loop(b, offset, jumptable, i + 1, r.val)

Radix_read_from(b, offset) ==
    LET ct == check_type(b, offset, TYPE_RADIX)
    IN  IF ct.tag # "Ok"
        THEN ct
        ELSE IF offset + 1 + RadixChildren > Len(b)
             THEN Err("InvalidData")
             ELSE LET jumptable == [i \in 0 .. (RadixChildren - 1) |-> b[offset + 1 + i + 1]]
                      link == read_vlq_at(b, offset + 1 + RadixChildren)
                  IN  IF link.tag # "Ok"
                      THEN link
                      ELSE LET r == Radix_read_loop(b, offset, jumptable, 0,
                                        [pos |-> 1 + RadixChildren + link.val.len,
                                         offsets |-> NoChildren])
                           IN  IF r.tag # "Ok"
                               THEN r
                               ELSE Ok(Radix(r.val.offsets, link.val.v))

\* the writer's loop step that records the position after the child's VLQ
Radix_write_step_JumpAfter(offsets, map, i, b) ==
    LET v == offsets[i]
    IN  IF v # Zero
        THEN LET t == translate_offset(v, map)
             IN  IF t.tag # "Ok"
                 THEN t
                 ELSE LET b1 == b \o write_vlq(t.val)
                      IN  Ok([b1 EXCEPT ![1 + i + 1] = Len(b1) % 256])
        ELSE Ok(b)

\* the writer's loop step that emits the child's offset untranslated
Radix_write_step_Raw(offsets, map, i, b) ==
    LET v == offsets[i]
    IN  IF v # Zero
        THEN Ok([b EXCEPT ![1 + i + 1] = Len(b) % 256] \o write_vlq(v))
        ELSE Ok(b)

\* the writer's loop step that also emits a VLQ for an absent child
Radix_write_step_EmitAbsent(offsets, map, i, b) ==
    LET v == offsets[i]
        t == translate_offset(v, map)
    IN  IF t.tag # "Ok"
        THEN t
        ELSE Ok([b EXCEPT ![1 + i + 1] = IF v # Zero THEN Len(b) % 256 ELSE 0]
                \o write_vlq(t.val))

\* the writer's loop step with the position kept in seven bits
Radix_write_step_SevenBits(offsets, map, i, b) ==
    LET v == offsets[i]
    IN  IF v # Zero
        THEN LET t == translate_offset(v, map)
             IN  IF t.tag # "Ok"
                 THEN t
                 ELSE Ok([b EXCEPT ![1 + i + 1] = Len(b) % 128] \o write_vlq(t.val))
        ELSE Ok(b)

\* one iteration of `for i in 0..16` of Radix::write_to; b is the local buf
Radix_write_step(offsets, map, i, b) ==
    LET v == offsets[i]
    IN  IF v # Zero
        THEN LET t == translate_offset(v, map)
             IN  IF t.tag # "Ok"
                 THEN t
                 ELSE Ok([b EXCEPT ![1 + i + 1] = Len(b) % 256] \o write_vlq(t.val))
        ELSE Ok(b)

RECURSIVE Radix_write_loop(_, _, _, _)
Radix_write_loop(offsets, map, i, b) ==
    IF i = RadixChildren
    THEN Ok(b)
    ELSE LET r == Radix_write_step(offsets, map, i, b)
         IN  IF r.tag # "Ok" THEN r ELSE Radix_write_loop(offsets, map, i + 1, r.val)

\* Radix::write_to: Ok(bytes appended to the writer), or Panic with the bytes
\* that reached the writer before it (none: the record is built in a local buf)
Radix_write_to(r, map) ==
    LET link == translate_offset(r.link_offset, map)
    IN  IF link.tag # "Ok"
        THEN [tag |-> "Panic", val |-> <<>>]
        ELSE LET head == <<TYPE_RADIX>> \o [i \in 1 .. RadixChildren |-> 0]
                         \o write_vlq(link.val)
                 body == Radix_write_loop(r.offsets, map, 0, head)
             IN  IF body.tag # "Ok" THEN [tag |-> "Panic", val |-> <<>>] ELSE body

----------------------------------------------------------------------------
(* Leaf *)

Leaf(key_offset, link_offset) ==
    [kind |-> "Leaf", key_offset |-> key_offset, link_offset |-> link_offset]

\* Leaf::read_from that reads link_offset right after the type byte
Leaf_read_from_SameField(b, offset) ==
    LET ct == check_type(b, offset, TYPE_LEAF)
    IN  IF ct.tag # "Ok"
        THEN ct
        ELSE LET k == read_vlq_at(b, offset + 1)
             IN  IF k.tag # "Ok"
                 THEN k
                 ELSE LET l == read_vlq_at(b, offset + 1)
                      IN  IF l.tag # "Ok" THEN l ELSE Ok(Leaf(k.val.v, l.val.v))

Leaf_read_from(b, offset) ==
    LET ct == check_type(b, offset, TYPE_LEAF)
    IN  IF ct.tag # "Ok"
        THEN ct
        ELSE LET k == read_vlq_at(b, offset + 1)
             IN  IF k.tag # "Ok"
                 THEN k
                 ELSE LET l == read_vlq_at(b, offset + k.val.len + 1)
                      IN  IF l.tag # "Ok" THEN l ELSE Ok(Leaf(k.val.v, l.val.v))

\* Leaf::write_to writes straight to the writer, so the bytes before a panic stay
Leaf_write_to(l, map) ==
    LET k == translate_offset(l.key_offset, map)
    IN  IF k.tag # "Ok"
        THEN [tag |-> "Panic", val |-> <<TYPE_LEAF>>]
        ELSE LET n == translate_offset(l.link_offset, map)
             IN  IF n.tag # "Ok"
                 THEN [tag |-> "Panic", val |-> <<TYPE_LEAF>> \o write_vlq(k.val)]
                 ELSE Ok(<<TYPE_LEAF>> \o write_vlq(k.val) \o write_vlq(n.val))

----------------------------------------------------------------------------
(* Link *)

Link(value, next_link_offset) ==
    [kind |-> "Link", value |-> value, next_link_offset |-> next_link_offset]

Link_read_from(b, offset) ==
    LET ct == check_type(b, offset, TYPE_LINK)
    IN  IF ct.tag # "Ok"
        THEN ct
        ELSE LET v == read_vlq_at(b, offset + 1)
             IN  IF v.tag # "Ok"
                 THEN v
                 ELSE LET n == read_vlq_at(b, offset + v.val.len + 1)
                      IN  IF n.tag # "Ok" THEN n ELSE Ok(Link(v.val.v, n.val.v))

\* Link::write_to that sends the value through translate_offset as well
Link_write_to_TranslateValue(l, map) ==
    LET v == translate_offset(l.value, map)
    IN  IF v.tag # "Ok"
        THEN [tag |-> "Panic", val |-> <<TYPE_LINK>>]
        ELSE LET n == translate_offset(l.next_link_offset, map)
             IN  IF n.tag # "Ok"
                 THEN [tag |-> "Panic", val |-> <<TYPE_LINK>> \o write_vlq(v.val)]
                 ELSE Ok(<<TYPE_LINK>> \o write_vlq(v.val) \o write_vlq(n.val))

\* Link::write_to: the value is emitted as it is, only next_link_offset is translated
Link_write_to(l, map) ==
    LET n == translate_offset(l.next_link_offset, map)
    IN  IF n.tag # "Ok"
        THEN [tag |-> "Panic", val |-> <<TYPE_LINK>> \o write_vlq(l.value)]
        ELSE Ok(<<TYPE_LINK>> \o write_vlq(l.value) \o write_vlq(n.val))

----------------------------------------------------------------------------
(* ServerConfig, the Entity it is parsed from, and the loaders *)

NoneU64 == [some |-> FALSE, v |-> 0]
SomeU64(n) == [some |-> TRUE, v |-> n]

\* Option<String>: a string is held as the sequence of its tokens
NoVersion == [some |-> FALSE, v |-> <<>>]
SomeVersion(s) == [some |-> TRUE, v |-> s]

ServerConfig(t, r, m5, m15) ==
    [track_bytes_sent |-> t, enable_consistent_routing |-> r,
     max_bytes_sent_5s |-> m5, max_bytes_sent_15s |-> m15]

ServerConfig_default == ServerConfig(FALSE, FALSE, NoneU64, NoneU64)

Entity(contents, mod_time, version) ==
    [contents |-> contents, mod_time |-> mod_time, version |-> version]

\* the contents of an entity: the tokens of a JSON object, name then value
DocDefault ==
    <<"track_bytes_sent", "false", "enable_consistent_routing", "false",
      "max_bytes_sent_5s", "null", "max_bytes_sent_15s", "null">>
DocLimits ==
    <<"enable_consistent_routing", "false", "track_bytes_sent", "true",
      "max_bytes_sent_5s", "100">>
\* a required field is missing
DocMissing == <<"track_bytes_sent", "true">>
\* not a JSON object
DocGarbage == <<"{">>

FieldNames ==
    {"track_bytes_sent", "enable_consistent_routing",
     "max_bytes_sent_5s", "max_bytes_sent_15s"}

Numbers == [t \in {"100", "200"} |-> IF t = "100" THEN 100 ELSE 200]

\* the positions of the field `name` among the pairs of c
FieldAt(c, name) == {i \in 1 .. (Len(c) \div 2) : c[2 * i - 1] = name}

FieldValue(c, name) == c[2 * (CHOOSE i \in FieldAt(c, name) : TRUE)]

ParseBool(c, name) ==
    IF FieldAt(c, name) = {}
    THEN Err("missing field")
    ELSE IF FieldValue(c, name) = "true"
         THEN Ok(TRUE)
         ELSE IF FieldValue(c, name) = "false" THEN Ok(FALSE) ELSE Err("invalid type")

ParseOptU64(c, name) ==
    IF FieldAt(c, name) = {}
    THEN Ok(NoneU64)
    ELSE IF FieldValue(c, name) = "null"
         THEN Ok(NoneU64)
         ELSE IF FieldValue(c, name) \in DOMAIN Numbers
              THEN Ok(SomeU64(Numbers[FieldValue(c, name)]))
              ELSE Err("invalid type")

\* the four fields, all parsed
ServerConfig_of(t, r, m5, m15) ==
    IF t.tag # "Ok" THEN t
    ELSE IF r.tag # "Ok" THEN r
    ELSE IF m5.tag # "Ok" THEN m5
    ELSE IF m15.tag # "Ok" THEN m15
    ELSE Ok(ServerConfig(t.val, r.val, m5.val, m15.val))

\* serde_json::from_str::<ServerConfig>
ServerConfig_from_str(c) ==
    IF Len(c) % 2 # 0
    THEN Err("syntax")
    ELSE IF {name \in FieldNames : Cardinality(FieldAt(c, name)) > 1} # {}
         THEN Err("duplicate field")
         ELSE ServerConfig_of(ParseBool(c, "track_bytes_sent"),
                              ParseBool(c, "enable_consistent_routing"),
                              ParseOptU64(c, "max_bytes_sent_5s"),
                              ParseOptU64(c, "max_bytes_sent_15s"))

ServerConfigInner(mod_time, version, config) ==
    [mod_time |-> mod_time, version |-> version, config |-> config]

\* (a parse error replaced by the default configuration)
ServerConfigInner_new_DefaultOnError(e) ==
    IF ServerConfig_from_str(e.contents).tag # "Ok"
    THEN Ok(ServerConfigInner(e.mod_time, e.version, ServerConfig_default))
    ELSE Ok(ServerConfigInner(e.mod_time, e.version,
                              ServerConfig_from_str(e.contents).val))

ServerConfigInner_new(e) ==
    IF ServerConfig_from_str(e.contents).tag # "Ok"
    THEN ServerConfig_from_str(e.contents)
    ELSE Ok(ServerConfigInner(e.mod_time, e.version,
                              ServerConfig_from_str(e.contents).val))

\* Option<Result<Self, Error>>
ServerConfigInner_maybe_update_ModTimeOnly(self, e) ==
    IF e.mod_time = self.mod_time
    THEN [some |-> FALSE]
    ELSE [some |-> TRUE, res |-> ServerConfigInner_new(e)]

ServerConfigInner_maybe_update(self, e) ==
    IF e.mod_time = self.mod_time /\ e.version = self.version
    THEN [some |-> FALSE]
    ELSE [some |-> TRUE, res |-> ServerConfigInner_new(e)]

\* ConfigLoader::load on what the source holds at the time: `ok` is whether
\* the file can be read, or the configerator call returned within the timeout
ConfigLoader_load(self, src) ==
    IF self = "Default"
    THEN Ok(Entity(DocDefault, 0, NoVersion))
    ELSE IF ~src.ok
         THEN Err("load")
         ELSE IF self = "File"
              THEN Ok(Entity(src.contents, src.mod_time, SomeVersion(src.contents)))
              ELSE Ok(Entity(src.contents, src.mod_time, src.version))

NoEntity == Entity(<<>>, 0, NoVersion)
NoOutcome == [tag |-> "None"]

\* no configuration poller is running
NoPoller ==
    /\ will_exit = FALSE
    /\ inner = ServerConfigInner(0, NoVersion, ServerConfig_default)
    /\ lock = [readers |-> {}, writer |-> FALSE]
    /\ ppc = "none"
    /\ observed = FALSE
    /\ elapsed = 0
    /\ slept = 0
    /\ loader = "Default"
    /\ entity = NoEntity
    /\ outcome = NoOutcome
    /\ installed = <<>>
    /\ rpc = <<>>
    /\ got = <<>>

----------------------------------------------------------------------------
(* Records, maps and buffers the writers and readers are run on *)

NChild == 2
MaxPrefix == 1

MaxClean == Pred(DIRTY_OFFSET)

\* offsets of every VLQ length class: null, 1 byte, 2 bytes, 9 bytes (largest
\* clean), 10 bytes (smallest and largest dirty)
OffsetVals == {Zero, FromNat(1), FromNat(300), MaxClean, DIRTY_OFFSET, MaxU64}

\* the values a child slot is drawn from
SlotVals == {Zero, FromNat(300), MaxClean, DIRTY_OFFSET}

FillVals == {Zero, MaxClean}

\* the child slots that are set one by one; the other slots share a fill value
SlotIdx(k) == (k * 5) % RadixChildren
Slots == {SlotIdx(k) : k \in 0 .. (NChild - 1)}

\* all 16 children and link_offset dirty: each VLQ is 10 bytes long when the
\* map sends the dirty offset to a value >= 2^63
LongestRadix == Radix([i \in 0 .. (RadixChildren - 1) |-> DIRTY_OFFSET], DIRTY_OFFSET)

RadixRecs ==
    {Radix([i \in 0 .. (RadixChildren - 1) |->
                IF i \in Slots
                THEN f[CHOOSE k \in 0 .. (NChild - 1) : SlotIdx(k) = i]
                ELSE fill],
           l) :
        f \in [0 .. (NChild - 1) -> SlotVals], fill \in FillVals, l \in OffsetVals}
    \cup {LongestRadix}

LeafRecs == {Leaf(k, l) : k \in OffsetVals, l \in OffsetVals}

LinkRecs == {Link(v, n) : v \in OffsetVals, n \in OffsetVals}

EmptyMap == [v \in {} |-> Zero]

Maps ==
    {EmptyMap,
     [v \in {DIRTY_OFFSET} |-> Zero],
     [v \in {DIRTY_OFFSET, FromNat(300)} |-> IF v = DIRTY_OFFSET THEN FromNat(200) ELSE FromNat(7)],
     [v \in {DIRTY_OFFSET, MaxU64} |-> IF v = MaxU64 THEN FromNat(7) ELSE FromNat(200)],
     [v \in {DIRTY_OFFSET, MaxU64} |-> IF v = MaxU64 THEN MaxClean ELSE MaxU64]}

\* the buffer a record is appended to: `vec![1]` in the tests
Prefix(p) == [i \in 1 .. p |-> TYPE_ROOT]

ReadOffsets == {start, start + 1, Len(buf), Len(buf) + 1}

----------------------------------------------------------------------------
(* Specification of the record writers and readers *)

Init ==
    /\ rec \in RadixRecs \cup LeafRecs \cup LinkRecs
    /\ offset_map \in Maps
    /\ start \in 0 .. MaxPrefix
    /\ buf = Prefix(start)
    /\ pc = "init"
    /\ result = NoResult
    /\ dirty = <<>>
    /\ root = Zero
    /\ todo = <<>>
    /\ history = <<>>
    /\ durable = <<>>
    /\ NoPoller

Written(w) ==
    /\ buf' = buf \o w.val
    /\ pc' = IF w.tag = "Ok" THEN "written" ELSE "panicked"
    /\ UNCHANGED <<rec, offset_map, start, result, idxvars, cfgvars>>

WriteRadix ==
    /\ pc = "init"
    /\ rec.kind = "Radix"
    /\ Written(Radix_write_to(rec, offset_map))

WriteLeaf ==
    /\ pc = "init"
    /\ rec.kind = "Leaf"
    /\ Written(Leaf_write_to(rec, offset_map))

WriteLink ==
    /\ pc = "init"
    /\ rec.kind = "Link"
    /\ Written(Link_write_to(rec, offset_map))

\* the jump-table bytes that are moved: the slots and one fill slot
TamperIdx == Slots \cup {RadixChildren - 1}

\* translate_offset applied to one offset under the map
Translate ==
    /\ pc = "init"
    /\ \E v \in OffsetVals :
          result' = [op |-> "translate_offset", offset |-> 0, arg |-> v,
                     out |-> translate_offset(v, offset_map)]
    /\ pc' = "translated"
    /\ UNCHANGED <<rec, offset_map, buf, start, idxvars, cfgvars>>

\* a hand-crafted buffer: one jump-table byte of the written Radix moved by one
Tamper ==
    /\ pc = "written"
    /\ rec.kind = "Radix"
    /\ result = NoResult
    /\ \E i \in TamperIdx :
          buf' = [buf EXCEPT ![start + 1 + i + 1] = (@ + 1) % 256]
    /\ pc' = "tampered"
    /\ UNCHANGED <<rec, offset_map, start, result, idxvars, cfgvars>>

ReadRadix ==
    /\ pc \in {"written", "tampered"}
    /\ result = NoResult
    /\ \E o \in ReadOffsets :
          result' = [op |-> "Radix", offset |-> o, out |-> Radix_read_from(buf, o)]
    /\ UNCHANGED <<rec, offset_map, buf, start, pc, idxvars, cfgvars>>

ReadLeaf ==
    /\ pc = "written"
    /\ result = NoResult
    /\ \E o \in ReadOffsets :
          result' = [op |-> "Leaf", offset |-> o, out |-> Leaf_read_from(buf, o)]
    /\ UNCHANGED <<rec, offset_map, buf, start, pc, idxvars, cfgvars>>

ReadLink ==
    /\ pc = "written"
    /\ result = NoResult
    /\ \E o \in ReadOffsets :
          result' = [op |-> "Link", offset |-> o, out |-> Link_read_from(buf, o)]
    /\ UNCHANGED <<rec, offset_map, buf, start, pc, idxvars, cfgvars>>

Next ==
    \/ WriteRadix
    \/ WriteLeaf
    \/ WriteLink
    \/ Translate
    \/ Tamper
    \/ ReadRadix
    \/ ReadLeaf
    \/ ReadLink

Spec == Init /\ [][Next]_vars

----------------------------------------------------------------------------
(* Key and Root records *)

Key(bytes) == [kind |-> "Key", key |-> bytes]

\* a small u64 (a file offset, a length) as a natural number
ToNat(v) == v[1] + VlqBase * v[2] + VlqBase * VlqBase * v[3]

\* KEY := '\5' + VLQ(KEY_LEN) + KEY_BYTES
Key_write_to(k) == Ok(<<TYPE_KEY>> \o write_vlq(FromNat(Len(k.key))) \o k.key)

Key_read_from(b, offset) ==
    LET ct == check_type(b, offset, TYPE_KEY)
    IN  IF ct.tag # "Ok"
        THEN ct
        ELSE LET l == read_vlq_at(b, offset + 1)
             IN  IF l.tag # "Ok"
                 THEN l
                 ELSE LET from == offset + 1 + l.val.len
                          n == ToNat(l.val.v)
                      IN  IF from + n > Len(b)
                          THEN Err("InvalidData")
                          ELSE Ok(Key(SubSeq(b, from + 1, from + n)))

\* ROOT := '\1' + PTR(RADIX) + ROOT_LEN (1 byte)
Root_write_to(radix_offset, map) ==
    LET t == translate_offset(radix_offset, map)
    IN  IF t.tag # "Ok"
        THEN [tag |-> "Panic", val |-> <<>>]
        ELSE LET body == <<TYPE_ROOT>> \o write_vlq(t.val)
             IN  Ok(body \o <<Len(body) + 1>>)

----------------------------------------------------------------------------
(* The in-memory tree: dirty nodes live in an arena, in allocation order;   *)
(* the dirty offset of a node is its allocation counter with bit 63 set     *)

DirtyId(k) == [i \in 1 .. NDigits |-> IF i = NDigits THEN DIRTY_OFFSET[i] ELSE FromNat(k)[i]]

DirtyIndex(off) == ToNat(off) + 1

Alloc(arena, node) == [arena |-> Append(arena, node), off |-> DirtyId(Len(arena))]

\* the entry at a clean offset, by its type byte
ReadEntry(b, o) ==
    IF b[o + 1] = TYPE_RADIX THEN Radix_read_from(b, o).val
    ELSE IF b[o + 1] = TYPE_LEAF THEN Leaf_read_from(b, o).val
    ELSE IF b[o + 1] = TYPE_LINK THEN Link_read_from(b, o).val
    ELSE Key_read_from(b, o).val

\* the node an offset names: in memory if dirty, in the file if clean
NodeAt(arena, b, off) ==
    IF IsDirty(off) THEN arena[DirtyIndex(off)] ELSE ReadEntry(b, ToNat(off))

\* nibble d of a key, high nibble of a byte first
Nibble(key, d) ==
    IF d % 2 = 0 THEN key[(d \div 2) + 1] \div 16 ELSE key[(d \div 2) + 1] % 16

NibbleLen(key) == 2 * Len(key)

----------------------------------------------------------------------------
(* Lookup *)

RECURSIVE ValuesFrom(_, _, _)
ValuesFrom(arena, b, off) ==
    IF off = Zero
    THEN <<>>
    ELSE LET l == NodeAt(arena, b, off)
         IN  <<l.value>> \o ValuesFrom(arena, b, l.next_link_offset)

RECURSIVE LookupAt(_, _, _, _, _)
LookupAt(arena, b, off, key, d) ==
    LET r == NodeAt(arena, b, off)
    IN  IF d = NibbleLen(key)
        THEN ValuesFrom(arena, b, r.link_offset)
        ELSE LET c == r.offsets[Nibble(key, d)]
             IN  IF c = Zero
                 THEN <<>>
                 ELSE LET cn == NodeAt(arena, b, c)
                      IN  IF cn.kind = "Radix"
                          THEN LookupAt(arena, b, c, key, d + 1)
                          ELSE IF NodeAt(arena, b, cn.key_offset).key = key
                               THEN ValuesFrom(arena, b, cn.link_offset)
                               ELSE <<>>

Lookup(arena, b, r, key) == LookupAt(arena, b, r, key, 0)

----------------------------------------------------------------------------
(* Insert *)

\* a Leaf over a freshly allocated Key (k) and Link (l)
LeafFor(koff, l) == Alloc(l.arena, Leaf(koff, l.off))

LeafOver(k, value) == LeafFor(k.off, Alloc(k.arena, Link(value, Zero)))

\* a new Key, a one-element Link list and a Leaf pointing at both
NewLeaf(arena, key, value) == LeafOver(Alloc(arena, Key(key)), value)

\* a new Radix whose only child, at nibble n, is the node just allocated (c)
RadixOver(c, n, link_offset) ==
    Alloc(c.arena, Radix([NoChildren EXCEPT ![n] = c.off], link_offset))

\* a new Radix with the Link just allocated (lk) on its link_offset
RadixUnder(lk, n, child) ==
    Alloc(lk.arena, Radix([NoChildren EXCEPT ![n] = child], lk.off))

\* a new Radix with the old Leaf at nibble m and the new Leaf (nl) at nibble n
RadixFork(nl, n, m, oldoff) ==
    Alloc(nl.arena, Radix([NoChildren EXCEPT ![m] = oldoff, ![n] = nl.off], Zero))

\* the Radix chain that separates the stored key sk of the Leaf at oldoff from
\* the incoming key, from depth e on
RECURSIVE Split(_, _, _, _, _, _, _)
Split(arena, oldoff, oldleaf, sk, key, e, value) ==
    IF e = NibbleLen(sk)
    THEN \* the stored key ends here: its list goes on the Radix's link_offset
         RadixOver(NewLeaf(arena, key, value), Nibble(key, e), oldleaf.link_offset)
    ELSE IF e = NibbleLen(key)
    THEN \* the incoming key ends here: its list goes on the Radix's link_offset
         RadixUnder(Alloc(arena, Link(value, Zero)), Nibble(sk, e), oldoff)
    ELSE IF Nibble(sk, e) = Nibble(key, e)
    THEN \* an interior Radix with one child
         RadixOver(Split(arena, oldoff, oldleaf, sk, key, e + 1, value),
                   Nibble(key, e), Zero)
    ELSE \* the split point
         RadixFork(NewLeaf(arena, key, value), Nibble(key, e), Nibble(sk, e), oldoff)

\* a changed node is mutated in place if dirty, copied into a fresh dirty node
\* if clean
Put(arena, off, node) ==
    IF IsDirty(off)
    THEN [arena |-> [arena EXCEPT ![DirtyIndex(off)] = node], off |-> off]
    ELSE Alloc(arena, node)

\* the Radix r at off gets the node just written (c) as its child n
Install(c, off, r, n) == Put(c.arena, off, [r EXCEPT !.offsets[n] = c.off])

\* the Radix r at off gets the Link just allocated (lk) on its link_offset
AttachLink(lk, off, r) == Put(lk.arena, off, [r EXCEPT !.link_offset = lk.off])

\* the Leaf cn at c gets the Link just allocated (lk) as the head of its list
Prepend(lk, c, cn) == Put(lk.arena, c, Leaf(cn.key_offset, lk.off))

RECURSIVE InsertAt(_, _, _, _, _, _)

\* the edge n of r leads to the Leaf cn (at c) whose stored key is sk
InsertAtLeaf(arena, off, r, n, c, cn, sk, key, d, value) ==
    IF sk = key
    THEN Install(Prepend(Alloc(arena, Link(value, cn.link_offset)), c, cn), off, r, n)
    ELSE Install(Split(arena, c, cn, sk, key, d + 1, value), off, r, n)

\* the edge n of r leads to the node cn at offset c
InsertUnder(arena, b, off, r, n, c, cn, key, d, value) ==
    IF cn.kind = "Radix"
    THEN Install(InsertAt(arena, b, c, key, d + 1, value), off, r, n)
    ELSE InsertAtLeaf(arena, off, r, n, c, cn,
                      NodeAt(arena, b, cn.key_offset).key, key, d, value)

\* insert below the Radix r found at off, d nibbles of the key consumed
InsertInto(arena, b, off, r, key, d, value) ==
    IF d = NibbleLen(key)
    THEN AttachLink(Alloc(arena, Link(value, r.link_offset)), off, r)
    ELSE IF r.offsets[Nibble(key, d)] = Zero
         THEN Install(NewLeaf(arena, key, value), off, r, Nibble(key, d))
         ELSE InsertUnder(arena, b, off, r, Nibble(key, d),
                          r.offsets[Nibble(key, d)],
                          NodeAt(arena, b, r.offsets[Nibble(key, d)]),
                          key, d, value)

InsertAt(arena, b, off, key, d, value) ==
    InsertInto(arena, b, off, NodeAt(arena, b, off), key, d, value)

----------------------------------------------------------------------------
(* Flush *)

\* the dirty nodes reachable from off, children first: referenced Keys and
\* Links, then child Radix/Leaf nodes, then the node itself.  OrderFrom with
\* i = WholeNode orders the node at off; with i in 0 .. 16 it orders the
\* children i .. 15 of the dirty Radix at off.
WholeNode == -1

RECURSIVE OrderFrom(_, _, _)
OrderFrom(arena, off, i) ==
    IF i = WholeNode
    THEN IF ~IsDirty(off)
         THEN <<>>
         ELSE LET n == arena[DirtyIndex(off)]
              IN  IF n.kind = "Key"
                  THEN <<off>>
                  ELSE IF n.kind = "Link"
                  THEN OrderFrom(arena, n.next_link_offset, WholeNode) \o <<off>>
                  ELSE IF n.kind = "Leaf"
                  THEN OrderFrom(arena, n.key_offset, WholeNode)
                       \o OrderFrom(arena, n.link_offset, WholeNode) \o <<off>>
                  ELSE OrderFrom(arena, n.link_offset, WholeNode)
                       \o OrderFrom(arena, off, 0) \o <<off>>
    ELSE IF i = RadixChildren
         THEN <<>>
         ELSE OrderFrom(arena, arena[DirtyIndex(off)].offsets[i], WholeNode)
              \o OrderFrom(arena, off, i + 1)

EmitOrder(arena, off) == OrderFrom(arena, off, WholeNode)

\* the component's write_to
Node_write_to(n, map) ==
    IF n.kind = "Radix" THEN Radix_write_to(n, map)
    ELSE IF n.kind = "Leaf" THEN Leaf_write_to(n, map)
    ELSE IF n.kind = "Link" THEN Link_write_to(n, map)
    ELSE Key_write_to(n)

----------------------------------------------------------------------------
(* Specification of the index: inserts and flushes of a single writer *)

MaxInserts == 3

KeyA == <<97>>
KeyAB == <<97, 98>>
KeyC == <<99>>
Keys == {KeyA, KeyAB, KeyC}

\* the first value inserted is small or has bit 63 set; the values after it
\* alternate between the two classes and are all different, so that the order
\* of a list is visible in it
Values == {FromNat(10), MaxU64}

NextValues(h) ==
    IF h = <<>>
    THEN Values
    ELSE IF IsDirty(h[Len(h)][2])
         THEN {FromNat(10 + Len(h))}
         ELSE {[MaxU64 EXCEPT ![1] = VlqBase - 1 - Len(h)]}

EmptyRadix == Radix(NoChildren, Zero)

IndexInit ==
    /\ rec = EmptyRadix
    /\ offset_map = EmptyMap
    /\ buf = <<TYPE_HEAD>>
    /\ start = 0
    /\ pc = "idle"
    /\ result = NoResult
    /\ dirty = <<EmptyRadix>>
    /\ root = DirtyId(0)
    /\ todo = <<>>
    /\ history = <<>>
    /\ durable = <<>>
    /\ NoPoller

Insert ==
    /\ pc = "idle"
    /\ Len(history) < MaxInserts
    /\ \E key \in Keys, value \in NextValues(history) :
          LET ins == InsertAt(dirty, buf, root, key, 0, value)
          IN  /\ dirty' = ins.arena
              /\ root' = ins.off
              /\ history' = Append(history, <<key, value>>)
    /\ UNCHANGED <<rec, offset_map, buf, start, pc, result, todo, durable, cfgvars>>

\* flush, step 1: the topological order of the dirty subgraph
FlushBegin ==
    /\ pc = "idle"
    /\ IsDirty(root)
    /\ todo' = EmitOrder(dirty, root)
    /\ offset_map' = EmptyMap
    /\ pc' = "flushing"
    /\ UNCHANGED <<rec, buf, start, result, dirty, root, history, durable, cfgvars>>

\* flush, step 2, for one node: its clean offset is the writer's position
FlushWrite ==
    /\ pc = "flushing"
    /\ todo # <<>>
    /\ LET off == Head(todo)
           node == dirty[DirtyIndex(off)]
           map == [v \in DOMAIN offset_map \cup {off} |->
                      IF v = off THEN FromNat(Len(buf)) ELSE offset_map[v]]
           w == Node_write_to(node, map)
       IN  /\ offset_map' = map
           /\ rec' = node
           /\ buf' = buf \o w.val
           /\ pc' = IF w.tag = "Ok" THEN "flushing" ELSE "aborted"
    /\ todo' = Tail(todo)
    /\ UNCHANGED <<start, result, dirty, root, history, durable, cfgvars>>

\* flush, steps 3 and 5: the Root record, then the staging area is discarded
FlushRoot ==
    /\ pc = "flushing"
    /\ todo = <<>>
    /\ LET w == Root_write_to(root, offset_map)
       IN  IF w.tag = "Ok"
           THEN /\ buf' = buf \o w.val
                /\ root' = translate_offset(root, offset_map).val
                /\ dirty' = <<>>
                /\ pc' = "idle"
                /\ durable' = Append(durable, [len |-> Len(buf'), root |-> root',
                                                history |-> history])
           ELSE /\ pc' = "aborted"
                /\ UNCHANGED <<buf, root, dirty, durable>>
    /\ UNCHANGED <<rec, offset_map, start, result, todo, history, cfgvars>>

IndexNext ==
    \/ Insert
    \/ FlushBegin
    \/ FlushWrite
    \/ FlushRoot

IndexSpec == IndexInit /\ [][IndexNext]_vars

----------------------------------------------------------------------------
(* Open, and lookup by a reader that has only the file *)

\* the bytes ending at position e are a Root record: the last byte is the
\* record's length, the byte that many bytes back is TYPE_ROOT, and the VLQ
\* after it ends right before the length byte
ValidRootEnd(b, e) ==
    IF b[e] > e \/ b[e] = 0
    THEN FALSE
    ELSE IF b[e - b[e] + 1] # TYPE_ROOT
         THEN FALSE
         ELSE IF read_vlq_at(SubSeq(b, 1, e), e - b[e] + 1).tag # "Ok"
              THEN FALSE
              ELSE 1 + read_vlq_at(SubSeq(b, 1, e), e - b[e] + 1).val.len + 1 = b[e]

\* the Root is looked for at the tail, then one byte further back at a time
RECURSIVE FindRoot(_, _)
FindRoot(b, e) ==
    IF e = 0
    THEN Err("OpenError")
    ELSE IF ValidRootEnd(b, e)
         THEN Ok([radix_offset |-> read_vlq_at(SubSeq(b, 1, e), e - b[e] + 1).val.v,
                  empty |-> FALSE])
         ELSE FindRoot(b, e - 1)

\* open: a file that is exactly the Header is the empty index
Open(b) ==
    IF b = <<TYPE_HEAD>>
    THEN Ok([radix_offset |-> Zero, empty |-> TRUE])
    ELSE FindRoot(b, Len(b))

\* the offset is a position of the file
InFile(b, off) ==
    /\ \A i \in 4 .. NDigits : off[i] = 0
    /\ ToNat(off) < Len(b)

\* a value in front of the rest of its list
ConsValue(v, rest) == IF rest.tag # "Ok" THEN rest ELSE Ok(<<v>> \o rest.val)

\* the Key a Leaf refers to
ReadLeafKey(b, leaf) ==
    IF leaf.tag # "Ok"
    THEN leaf
    ELSE IF ~InFile(b, leaf.val.key_offset)
         THEN Err("InvalidData")
         ELSE Key_read_from(b, ToNat(leaf.val.key_offset))

\* the Link list from off; a list longer than the file has bytes is a cycle
RECURSIVE ReadValues(_, _, _)
ReadValues(b, off, fuel) ==
    IF off = Zero
    THEN Ok(<<>>)
    ELSE IF fuel = 0 \/ ~InFile(b, off)
         THEN Err("InvalidData")
         ELSE IF Link_read_from(b, ToNat(off)).tag # "Ok"
              THEN Link_read_from(b, ToNat(off))
              ELSE ConsValue(Link_read_from(b, ToNat(off)).val.value,
                             ReadValues(b, Link_read_from(b, ToNat(off)).val.next_link_offset,
                                        fuel - 1))

\* the list of the Leaf if its Key is the key looked up
ReadLeaf_values(b, leaf, k, key) ==
    IF leaf.tag # "Ok"
    THEN leaf
    ELSE IF k.tag # "Ok"
         THEN k
         ELSE IF k.val.key = key
              THEN ReadValues(b, leaf.val.link_offset, Len(b))
              ELSE Ok(<<>>)

RECURSIVE ReadLookupAt(_, _, _, _)

\* the edge c of a Radix: absent, a Radix, a Leaf, or an entry of another type
ReadLookupEdge(b, c, key, d) ==
    IF c = Zero
    THEN Ok(<<>>)
    ELSE IF ~InFile(b, c)
         THEN Err("InvalidData")
         ELSE IF b[ToNat(c) + 1] = TYPE_RADIX
              THEN ReadLookupAt(b, c, key, d + 1)
              ELSE IF b[ToNat(c) + 1] = TYPE_LEAF
                   THEN ReadLeaf_values(b, Leaf_read_from(b, ToNat(c)),
                                        ReadLeafKey(b, Leaf_read_from(b, ToNat(c))), key)
                   ELSE Err("InvalidData")

ReadLookupIn(b, r, key, d) ==
    IF r.tag # "Ok"
    THEN r
    ELSE IF d = NibbleLen(key)
         THEN ReadValues(b, r.val.link_offset, Len(b))
         ELSE ReadLookupEdge(b, r.val.offsets[Nibble(key, d)], key, d)

ReadLookupAt(b, off, key, d) ==
    IF ~InFile(b, off)
    THEN Err("InvalidData")
    ELSE ReadLookupIn(b, Radix_read_from(b, ToNat(off)), key, d)

\* lookup by a reader holding the offset of a root Radix
ReadLookup(b, r, key) == ReadLookupAt(b, r, key, 0)

----------------------------------------------------------------------------
(* Specification of a crash: the file loses its tail at any byte and is     *)
(* opened again                                                              *)

MaxCrashInserts == 2

CrashInsert ==
    /\ Len(history) < MaxCrashInserts
    /\ Insert

\* the file is cut to n bytes, between flushes or between two writes of a
\* flush (every byte position of a write is a prefix of the file after it),
\* and opened
Crash ==
    /\ pc \in {"idle", "flushing"}
    /\ \E n \in 0 .. Len(buf) :
          /\ buf' = SubSeq(buf, 1, n)
          /\ result' = [op |-> "open", offset |-> n, out |-> Open(SubSeq(buf, 1, n))]
          /\ root' = IF Open(SubSeq(buf, 1, n)).tag = "Ok"
                     THEN Open(SubSeq(buf, 1, n)).val.radix_offset
                     ELSE Zero
    /\ pc' = "reopened"
    /\ dirty' = <<>>
    /\ todo' = <<>>
    /\ UNCHANGED <<rec, offset_map, start, history, durable, cfgvars>>

CrashNext ==
    \/ CrashInsert
    \/ FlushBegin
    \/ FlushWrite
    \/ FlushRoot
    \/ Crash

CrashSpec == IndexInit /\ [][CrashNext]_vars

----------------------------------------------------------------------------
(* Specification of the configuration poller: the thread that                *)
(* spawn_config_poller starts, the source it polls, the signal to exit, and  *)
(* the threads that call ServerConfigHandle::get                             *)

FetchInterval == 1
MaxInstalls == 2
NReaders == 1

SleepSecs == 1

Readers == 1 .. NReaders
Docs == {DocDefault, DocLimits, DocMissing, DocGarbage}
Versions == {NoVersion, SomeVersion(<<"v1">>)}
ModTimes == {0, 1}

\* RwLock::read and RwLock::write return once the lock can be taken
RwLock_read_ready_Unlocked(l) == TRUE

RwLock_read_ready(l) == ~l.writer

RwLock_write_ready(l) == l.readers = {} /\ ~l.writer

Loaders == {"Configerator", "File", "Default"}

\* what a load may find: the file or the configerator entity, readable or not
Sources(l) ==
    {[ok |-> o, contents |-> c, mod_time |-> m, version |-> v] :
        o \in BOOLEAN, c \in Docs, m \in ModTimes,
        v \in IF l = "Configerator" THEN Versions ELSE {NoVersion}}

\* the entities the first load can return and ServerConfigInner::new accepts
InitialEntities(l) ==
    {ConfigLoader_load(l, src).val :
        src \in {x \in Sources(l) :
                    /\ ConfigLoader_load(l, x).tag = "Ok"
                    /\ ServerConfigInner_new(ConfigLoader_load(l, x).val).tag = "Ok"}}

\* the source is changed MaxInstalls - 1 times at most: after that a load
\* fails or returns the entity that is stored
Polled(l, stored) ==
    IF stored.count < MaxInstalls
    THEN Sources(l)
    ELSE {x \in Sources(l) :
             IF x.ok THEN ConfigLoader_load(l, x).val = stored.entity ELSE TRUE}

\* spawn_config_poller up to thread::spawn: the initial load and parse
PollerInit ==
    /\ rec = EmptyRadix
    /\ offset_map = EmptyMap
    /\ buf = <<>>
    /\ start = 0
    /\ pc = "poller"
    /\ result = NoResult
    /\ dirty = <<>>
    /\ root = Zero
    /\ todo = <<>>
    /\ history = <<>>
    /\ durable = <<>>
    /\ loader \in Loaders
    /\ installed \in {[entity |-> e, count |-> 1] : e \in InitialEntities(loader)}
    /\ will_exit = FALSE
    /\ inner = ServerConfigInner_new(installed.entity).val
    /\ lock = [readers |-> {}, writer |-> FALSE]
    /\ ppc = "top"
    /\ observed = FALSE
    /\ elapsed = 0
    /\ slept = 0
    /\ entity = NoEntity
    /\ outcome = NoOutcome
    /\ rpc = [r \in Readers |-> "idle"]
    /\ got = [r \in Readers |-> [config |-> inner.config, count |-> 0]]

\* the main thread asks the poller to exit
SetExit ==
    /\ ~will_exit
    /\ will_exit' = TRUE
    /\ UNCHANGED <<recvars, idxvars, inner, lock, ppc, observed, elapsed, slept,
                   loader, entity, outcome, installed, rpc, got>>

\* one second passes while the poller sleeps or loads
Tick ==
    /\ \/ ppc = "sleeping" /\ slept < SleepSecs
       \/ ppc = "load"
    /\ elapsed' = IF elapsed <= FetchInterval THEN elapsed + 1 ELSE elapsed
    /\ slept' = IF ppc = "sleeping" THEN slept + 1 ELSE slept
    /\ UNCHANGED <<recvars, idxvars, will_exit, inner, lock, ppc, observed, loader,
                   entity, outcome, installed, rpc, got>>

\* top of the loop: `if will_exit.load(Ordering::Relaxed) { return; }`
PollerTop ==
    /\ ppc = "top"
    /\ observed' = will_exit
    /\ ppc' = IF will_exit THEN "returned" ELSE "check"
    /\ UNCHANGED <<recvars, idxvars, will_exit, inner, lock, elapsed, slept, loader,
                   entity, outcome, installed, rpc, got>>

\* `if last_poll.elapsed() <= fetch_interval { sleep(1 s); continue; }`, else
\* `last_poll = Instant::now()`
PollerCheck ==
    /\ ppc = "check"
    /\ IF elapsed <= FetchInterval
       THEN /\ ppc' = "sleeping"
            /\ slept' = 0
            /\ UNCHANGED elapsed
       ELSE /\ ppc' = "load"
            /\ elapsed' = 0
            /\ UNCHANGED slept
    /\ UNCHANGED <<recvars, idxvars, will_exit, inner, lock, observed, loader,
                   entity, outcome, installed, rpc, got>>

\* thread::sleep returns; `continue`
PollerWake ==
    /\ ppc = "sleeping"
    /\ slept >= SleepSecs
    /\ slept' = 0
    /\ ppc' = "top"
    /\ UNCHANGED <<recvars, idxvars, will_exit, inner, lock, observed, elapsed,
                   loader, entity, outcome, installed, rpc, got>>

\* loader.load(timeout); an error is the outcome of the poll
PollerLoad ==
    /\ ppc = "load"
    /\ \E src \in Polled(loader, installed) :
          IF ConfigLoader_load(loader, src).tag = "Ok"
          THEN /\ entity' = ConfigLoader_load(loader, src).val
               /\ ppc' = "compare"
               /\ UNCHANGED outcome
          ELSE /\ outcome' = ConfigLoader_load(loader, src)
               /\ ppc' = "outcome"
               /\ UNCHANGED entity
    /\ UNCHANGED <<recvars, idxvars, will_exit, inner, lock, observed, elapsed, slept,
                   loader, installed, rpc, got>>

\* ServerConfigHandle::maybe_update, first half: inner.maybe_update(entity)
\* under the read lock
PollerCompare ==
    /\ ppc = "compare"
    /\ RwLock_read_ready(lock)
    /\ IF ~ServerConfigInner_maybe_update(inner, entity).some
       THEN /\ outcome' = Ok(NoneU64)
            /\ ppc' = "outcome"
       ELSE IF ServerConfigInner_maybe_update(inner, entity).res.tag # "Ok"
            THEN /\ outcome' = ServerConfigInner_maybe_update(inner, entity).res
                 /\ ppc' = "outcome"
            ELSE /\ ppc' = "wlock"
                 /\ UNCHANGED outcome
    /\ UNCHANGED <<recvars, idxvars, will_exit, inner, lock, observed, elapsed, slept,
                   loader, entity, installed, rpc, got>>

\* `self.inner.write()`
PollerWriteLock ==
    /\ ppc = "wlock"
    /\ RwLock_write_ready(lock)
    /\ lock' = [lock EXCEPT !.writer = TRUE]
    /\ installed' = [entity |-> entity, count |-> installed.count + 1]
    /\ ppc' = "write1"
    /\ UNCHANGED <<recvars, idxvars, will_exit, inner, observed, elapsed, slept,
                   loader, entity, outcome, rpc, got>>

\* `*inner = new_inner`, field by field
PollerWrite1 ==
    /\ ppc = "write1"
    /\ inner' = [inner EXCEPT !.mod_time = entity.mod_time, !.version = entity.version]
    /\ ppc' = "write2"
    /\ UNCHANGED <<recvars, idxvars, will_exit, lock, observed, elapsed, slept,
                   loader, entity, outcome, installed, rpc, got>>

PollerWrite2 ==
    /\ ppc = "write2"
    /\ inner' = [inner EXCEPT
                    !.config.track_bytes_sent =
                        ServerConfigInner_new(entity).val.config.track_bytes_sent,
                    !.config.enable_consistent_routing =
                        ServerConfigInner_new(entity).val.config.enable_consistent_routing]
    /\ ppc' = "write3"
    /\ UNCHANGED <<recvars, idxvars, will_exit, lock, observed, elapsed, slept,
                   loader, entity, outcome, installed, rpc, got>>

\* the last fields, the write guard is dropped, `Ok(Some(mod_time))`
PollerWrite3 ==
    /\ ppc = "write3"
    /\ inner' = [inner EXCEPT
                    !.config.max_bytes_sent_5s =
                        ServerConfigInner_new(entity).val.config.max_bytes_sent_5s,
                    !.config.max_bytes_sent_15s =
                        ServerConfigInner_new(entity).val.config.max_bytes_sent_15s]
    /\ lock' = [lock EXCEPT !.writer = FALSE]
    /\ outcome' = Ok(SomeU64(ServerConfigInner_new(entity).val.mod_time))
    /\ ppc' = "outcome"
    /\ UNCHANGED <<recvars, idxvars, will_exit, observed, elapsed, slept,
                   loader, entity, installed, rpc, got>>

\* `match outcome`: the outcome is logged and the iteration ends
PollerOutcome ==
    /\ ppc = "outcome"
    /\ entity' = NoEntity
    /\ ppc' = "top"
    /\ UNCHANGED <<recvars, idxvars, will_exit, inner, lock, observed, elapsed, slept,
                   loader, outcome, installed, rpc, got>>

\* ServerConfigHandle::get: with_inner takes the read lock ...
GetBegin ==
    /\ \E r \in Readers :
          /\ rpc[r] = "idle"
          /\ RwLock_read_ready(lock)
          /\ lock' = [lock EXCEPT !.readers = @ \cup {r}]
          /\ rpc' = [rpc EXCEPT ![r] = "reading"]
    /\ UNCHANGED <<recvars, idxvars, will_exit, inner, ppc, observed, elapsed, slept,
                   loader, entity, outcome, installed, got>>

\* ... copies inner.config and drops the guard
GetEnd ==
    /\ \E r \in Readers :
          /\ rpc[r] = "reading"
          /\ got' = [got EXCEPT ![r] = [config |-> inner.config,
                                         count |-> installed.count]]
          /\ lock' = [lock EXCEPT !.readers = @ \ {r}]
          /\ rpc' = [rpc EXCEPT ![r] = "idle"]
    /\ UNCHANGED <<recvars, idxvars, will_exit, inner, ppc, observed, elapsed, slept,
                   loader, entity, outcome, installed>>

PollerStep ==
    \/ PollerTop
    \/ PollerCheck
    \/ PollerWake
    \/ PollerLoad
    \/ PollerCompare
    \/ PollerWriteLock
    \/ PollerWrite1
    \/ PollerWrite2
    \/ PollerWrite3
    \/ PollerOutcome

PollerNext ==
    \/ SetExit
    \/ Tick
    \/ PollerStep
    \/ GetBegin
    \/ GetEnd

PollerSpec == PollerInit /\ [][PollerNext]_vars

\* the scheduler runs a thread that stays able to step: the poller thread, a
\* get that holds the read guard, and the clock.  std::sync::RwLock promises no
\* priority between a waiting writer and the readers, so nothing more is
\* assumed about who obtains a lock that is free only for a moment.
PollerFairSpec ==
    PollerSpec /\ WF_vars(PollerStep) /\ WF_vars(GetEnd) /\ WF_vars(Tick)

----------------------------------------------------------------------------
(* Vocabulary of the properties, stated on the bytes and the bits rather     *)
(* than through the operators of the code                                    *)

\* bit 63 is clear: the offset is < 2^63
Clean(v) == v[NDigits] = 0

\* what the offset must have become on disk
Translated(v, map) == IF Clean(v) THEN v ELSE map[v]

\* the offsets a record contains
Contained(r) ==
    IF r.kind = "Radix"
    THEN {r.link_offset} \cup {r.offsets[i] : i \in 0 .. (RadixChildren - 1)}
    ELSE IF r.kind = "Leaf"
         THEN {r.key_offset, r.link_offset}
         ELSE IF r.kind = "Link" THEN {r.next_link_offset} ELSE {}

\* every dirty offset of the record has a clean replacement in the map
Resolvable(r, map) ==
    \A v \in Contained(r) : ~Clean(v) => (v \in DOMAIN map /\ Clean(map[v]))

\* the record with every contained offset replaced by its translation
TranslatedRec(r, map) ==
    IF r.kind = "Radix"
    THEN Radix([i \in 0 .. (RadixChildren - 1) |-> Translated(r.offsets[i], map)],
               Translated(r.link_offset, map))
    ELSE IF r.kind = "Leaf"
         THEN Leaf(Translated(r.key_offset, map), Translated(r.link_offset, map))
         ELSE Link(r.value, Translated(r.next_link_offset, map))

\* the bytes of the record that was written at `start`
RecordBytes == SubSeq(buf, start + 1, Len(buf))

\* the last read_from was the record's own reader, at the record's start
ReadBack ==
    /\ pc = "written"
    /\ result.op = rec.kind
    /\ result.offset = start

\* where the VLQ of child i must begin in a written Radix: after the type byte,
\* the jump table, VLQ(link_offset) and the VLQs of the present children before i
RECURSIVE LayoutPos(_, _, _)
LayoutPos(r, map, i) ==
    IF i = 0
    THEN 1 + RadixChildren + VlqLen(Translated(r.link_offset, map))
    ELSE LayoutPos(r, map, i - 1)
         + (IF r.offsets[i - 1] # Zero
            THEN VlqLen(Translated(r.offsets[i - 1], map))
            ELSE 0)

\* C1: a Radix whose 16 child offsets and link_offset are all clean, written
\* with an empty offset_map at position `start` of a buffer, is written
\* successfully and Radix::read_from at `start` returns an equal Radix.
C1_RadixRoundTrip ==
    (/\ rec.kind = "Radix"
     /\ \A v \in Contained(rec) : Clean(v)
     /\ offset_map = EmptyMap)
    => /\ pc # "panicked"
       /\ ReadBack => result.out = Ok(rec)

C1_Witness ==
    /\ rec.kind = "Radix"
    /\ \A v \in Contained(rec) : Clean(v)
    /\ offset_map = EmptyMap
    /\ ReadBack
    /\ start > 0
    /\ result.out = Ok(rec)
    /\ rec.link_offset = MaxClean
    /\ \E i, j \in 0 .. (RadixChildren - 1) :
          i # j /\ rec.offsets[i] # Zero /\ rec.offsets[j] = Zero

\* C11: the Radix round trip as test_radix_format_roundtrip states it: for any
\* u64 link_offset, not reduced to the clean space, and child offsets reduced
\* to the clean space, Radix::write_to with an empty offset_map completes and
\* Radix::read_from at the record's start returns an equal Radix.
C11_TestRadixRoundTrip ==
    (/\ rec.kind = "Radix"
     /\ \A i \in 0 .. (RadixChildren - 1) : Clean(rec.offsets[i])
     /\ offset_map = EmptyMap)
    => /\ pc # "panicked"
       /\ ReadBack => result.out = Ok(rec)

\* C2: in a written Radix, jump-table byte i of a present child is the
\* position, relative to the record's start, at which the VLQ of the child's
\* translated offset begins, the present children following VLQ(link_offset)
\* in ascending i; the byte of an absent child is 0 and no bytes are emitted
\* for it.
C2_JumpTable ==
    (rec.kind = "Radix" /\ pc = "written" /\ result = NoResult)
    => LET R == RecordBytes
       IN  /\ Len(R) = LayoutPos(rec, offset_map, RadixChildren)
           /\ \A i \in 0 .. (RadixChildren - 1) :
                 LET p == LayoutPos(rec, offset_map, i)
                     t == Translated(rec.offsets[i], offset_map)
                 IN  IF rec.offsets[i] # Zero
                     THEN /\ R[1 + i + 1] = p
                          /\ SubSeq(R, p + 1, p + VlqLen(t)) = write_vlq(t)
                          /\ LayoutPos(rec, offset_map, i + 1) = p + VlqLen(t)
                     ELSE /\ R[1 + i + 1] = 0
                          /\ LayoutPos(rec, offset_map, i + 1) = p

C2_Witness ==
    /\ rec.kind = "Radix"
    /\ pc = "written"
    /\ start > 0
    /\ \E i, j, k \in 0 .. (RadixChildren - 1) :
          /\ i < j
          /\ rec.offsets[i] # Zero
          /\ ~Clean(rec.offsets[j])
          /\ rec.offsets[k] = Zero
          /\ RecordBytes[1 + i + 1] < RecordBytes[1 + j + 1]
          /\ RecordBytes[1 + k + 1] = 0

\* C4: translate_offset returns a clean v (0 included) unchanged, whatever the
\* map holds; returns map[v] for a dirty v that is a key of the map; and for a
\* dirty v that is no key of the map it aborts and returns no offset.
C4_TranslateOffset ==
    result.op = "translate_offset"
    => LET v == result.arg
           t == result.out
       IN  /\ Clean(v) => t = Ok(v)
           /\ (~Clean(v) /\ v \in DOMAIN offset_map) => t = Ok(offset_map[v])
           /\ (~Clean(v) /\ v \notin DOMAIN offset_map) => t.tag = "Panic"

C4_Witness ==
    /\ result.op = "translate_offset"
    /\ result.arg \in DOMAIN offset_map
    /\ Clean(result.arg)
    /\ offset_map[result.arg] # result.arg
    /\ result.out = Ok(result.arg)

\* C5: for a Radix, Leaf or Link and an offset_map that maps every dirty
\* offset of the record to a clean offset, write_to succeeds and its bytes
\* decode with read_from to the record in which every contained offset is
\* replaced by its translation, clean offsets (and a Link's value) kept.
C5_WriterTranslation ==
    Resolvable(rec, offset_map)
    => /\ pc # "panicked"
       /\ ReadBack => result.out = Ok(TranslatedRec(rec, offset_map))

C5_Witness ==
    /\ Resolvable(rec, offset_map)
    /\ ReadBack
    /\ rec.kind = "Radix"
    /\ ~Clean(rec.link_offset)
    /\ \E i \in 0 .. (RadixChildren - 1) :
          ~Clean(rec.offsets[i]) /\ rec.offsets[i] # rec.link_offset
    /\ result.out = Ok(TranslatedRec(rec, offset_map))
    /\ result.out.val # rec

\* the discriminator a reader expects
TypeOf(op) == IF op = "Radix" THEN TYPE_RADIX ELSE IF op = "Leaf" THEN TYPE_LEAF ELSE TYPE_LINK

\* the parse position reached when child i of the Radix at offset o is due:
\* after the type byte, the table, VLQ(link_offset) and the VLQs of the present
\* children of smaller index; -1 when one of those VLQs does not decode
RECURSIVE DuePos(_, _, _)
DuePos(b, o, i) ==
    IF i = 0
    THEN LET l == read_vlq_at(b, o + 1 + RadixChildren)
         IN  IF l.tag = "Ok" THEN 1 + RadixChildren + l.val.len ELSE -1
    ELSE LET p == DuePos(b, o, i - 1)
         IN  IF p = -1 \/ b[o + 1 + i] = 0
             THEN p
             ELSE LET c == read_vlq_at(b, o + p)
                  IN  IF c.tag = "Ok" THEN p + c.val.len ELSE -1

\* a Radix at offset o whose type byte and table are there, and some non-zero
\* jump-table byte differs from the parse position reached when its child is due
JumpMismatch(b, o) ==
    /\ o + 1 + RadixChildren <= Len(b)
    /\ b[o + 1] = TYPE_RADIX
    /\ \E i \in 0 .. (RadixChildren - 1) :
          /\ b[o + 1 + i + 1] # 0
          /\ DuePos(b, o, i) # -1
          /\ b[o + 1 + i + 1] # DuePos(b, o, i)

\* C6: Radix::read_from fails with InvalidData, returning no record, whenever
\* some non-zero jump-table byte differs from the parse position reached when
\* its child is due.
C6_JumpMismatchRejected ==
    (result.op = "Radix" /\ JumpMismatch(buf, result.offset))
    => result.out = Err("InvalidData")

\* a jump-table byte of a present child that points one past its VLQ's start
C6_Witness ==
    /\ pc = "tampered"
    /\ result.op = "Radix"
    /\ result.offset = start
    /\ result.out = Err("InvalidData")
    /\ \E i \in 0 .. (RadixChildren - 1) :
          /\ rec.offsets[i] # Zero
          /\ buf[start + 1 + i + 1] = LayoutPos(rec, offset_map, i) + 1
          /\ DuePos(buf, start, i) = LayoutPos(rec, offset_map, i)

\* C7: each read_from returns InvalidData, and no record, when the byte at the
\* given offset is not the record's own type discriminator or the offset lies
\* at or beyond the end of the buffer.
C7_TypeChecked ==
    (/\ result.op \in {"Radix", "Leaf", "Link"}
     /\ \/ result.offset >= Len(buf)
        \/ buf[result.offset + 1] # TypeOf(result.op))
    => result.out = Err("InvalidData")

C7_Witness ==
    /\ result.op = "Leaf"
    /\ rec.kind = "Link"
    /\ result.offset = start
    /\ start > 0
    /\ buf[result.offset + 1] = TYPE_LINK
    /\ result.out = Err("InvalidData")

\* C9: a Link with any u64 value (values >= 2^63 included) and a clean
\* next_link_offset, written with an empty offset_map, is written successfully
\* and Link::read_from at the record's start returns an equal Link.
C9_LinkRoundTrip ==
    (/\ rec.kind = "Link"
     /\ Clean(rec.next_link_offset)
     /\ offset_map = EmptyMap)
    => /\ pc # "panicked"
       /\ ReadBack => result.out = Ok(rec)

C9_Witness ==
    /\ rec.kind = "Link"
    /\ rec.value = MaxU64
    /\ rec.next_link_offset = MaxClean
    /\ offset_map = EmptyMap
    /\ start > 0
    /\ ReadBack
    /\ result.out = Ok(rec)

\* C10: a Leaf whose key_offset and link_offset are clean, written with an
\* empty offset_map, is written successfully and Leaf::read_from at the
\* record's start returns an equal Leaf.
C10_LeafRoundTrip ==
    (/\ rec.kind = "Leaf"
     /\ Clean(rec.key_offset)
     /\ Clean(rec.link_offset)
     /\ offset_map = EmptyMap)
    => /\ pc # "panicked"
       /\ ReadBack => result.out = Ok(rec)

C10_Witness ==
    /\ rec.kind = "Leaf"
    /\ rec.key_offset = FromNat(300)
    /\ rec.link_offset = MaxClean
    /\ offset_map = EmptyMap
    /\ start > 0
    /\ ReadBack
    /\ result.out = Ok(rec)

\* the largest position a child's VLQ can begin at: after the type byte, the
\* jump table, and 10-byte VLQs of link_offset and of the 15 children before
\* the last
MaxJump == 1 + RadixChildren + NDigits + (RadixChildren - 1) * NDigits

\* C19: for every Radix and every offset_map, each position that
\* Radix::write_to stores in a jump-table byte is the position itself, not
\* its remainder modulo 256, and lies in 18 .. 255: a present child is never
\* encoded as absent (byte 0) and never points at a wrapped position.
C19_JumpFitsByte ==
    (rec.kind = "Radix" /\ pc = "written" /\ result = NoResult)
    => /\ MaxJump <= 255
       /\ \A i \in 0 .. (RadixChildren - 1) :
             rec.offsets[i] # Zero =>
                LET p == LayoutPos(rec, offset_map, i)
                IN  /\ buf[start + 1 + i + 1] # 0
                    /\ buf[start + 1 + i + 1] >= 18
                    /\ buf[start + 1 + i + 1] <= 255
                    /\ buf[start + 1 + i + 1] = p
                    /\ p <= MaxJump

\* all 16 children present, each VLQ and the VLQ of link_offset 10 bytes long:
\* the last child is at the largest position there is
C19_Witness ==
    /\ rec.kind = "Radix"
    /\ pc = "written"
    /\ result = NoResult
    /\ start > 0
    /\ \A i \in 0 .. (RadixChildren - 1) : rec.offsets[i] # Zero
    /\ buf[start + 1 + RadixChildren] = MaxJump
    /\ MaxJump = 177
    /\ Len(buf) = start + MaxJump + NDigits

----------------------------------------------------------------------------
(* Properties of the flush *)

\* the length of the entry at offset o of the file, from its bytes; -1 when it
\* does not parse
EntryLen(b, o) ==
    IF b[o + 1] = TYPE_RADIX
    THEN IF o + 1 + RadixChildren <= Len(b) THEN DuePos(b, o, RadixChildren) ELSE -1
    ELSE LET first == read_vlq_at(b, o + 1)
         IN  IF first.tag # "Ok"
             THEN -1
             ELSE IF b[o + 1] = TYPE_KEY
                  THEN 1 + first.val.len + ToNat(first.val.v)
                  ELSE IF b[o + 1] = TYPE_ROOT
                  THEN 1 + first.val.len + 1
                  ELSE LET second == read_vlq_at(b, o + 1 + first.val.len)
                       IN  IF second.tag # "Ok"
                           THEN -1
                           ELSE 1 + first.val.len + second.val.len

\* the entry at offset o is a Radix, Leaf or Link that holds a dirty offset, or
\* an entry that does not parse
BadEntry(b, o) ==
    IF b[o + 1] = TYPE_RADIX
    THEN LET r == Radix_read_from(b, o)
         IN  r.tag # "Ok" \/ \E v \in Contained(r.val) : ~Clean(v)
    ELSE IF b[o + 1] = TYPE_LEAF
    THEN LET l == Leaf_read_from(b, o)
         IN  l.tag # "Ok" \/ \E v \in Contained(l.val) : ~Clean(v)
    ELSE IF b[o + 1] = TYPE_LINK
    THEN LET l == Link_read_from(b, o)
         IN  l.tag # "Ok" \/ \E v \in Contained(l.val) : ~Clean(v)
    ELSE IF b[o + 1] = TYPE_KEY
    THEN Key_read_from(b, o).tag # "Ok"
    ELSE b[o + 1] # TYPE_ROOT

\* the offsets at which a linear scan from offset o finds an entry
RECURSIVE EntryOffsets(_, _)
EntryOffsets(b, o) ==
    IF o >= Len(b)
    THEN {}
    ELSE IF EntryLen(b, o) <= 0
         THEN {o}
         ELSE {o} \cup EntryOffsets(b, o + EntryLen(b, o))

\* a linear scan of the file parses every entry up to the end of the file and
\* finds no dirty offset in a Radix, Leaf or Link
ScanClean(b) ==
    \A o \in EntryOffsets(b, 1) :
        /\ ~BadEntry(b, o)
        /\ EntryLen(b, o) > 0
        /\ o + EntryLen(b, o) <= Len(b)

EntriesOfType(b, t) == {o \in EntryOffsets(b, 1) : b[o + 1] = t}

\* C3: after any successful flush, every offset field of every persisted
\* Radix, Leaf and Link in the file is < 2^63: a linear scan of the file finds
\* no dirty offset.
C3_DirtyDiscipline ==
    (pc = "idle" /\ Len(buf) > 1) => ScanClean(buf)

\* two flushes are in the file, the second of which wrote a Radix that had a
\* dirty and a clean child, and a Link whose value is >= 2^63
C3_Witness ==
    /\ pc = "idle"
    /\ dirty = <<>>
    /\ Cardinality(EntriesOfType(buf, TYPE_ROOT)) >= 2
    /\ \E o \in EntriesOfType(buf, TYPE_RADIX) :
          \E i, j \in 0 .. (RadixChildren - 1) :
             LET r == Radix_read_from(buf, o).val
             IN  /\ i # j
                 /\ r.offsets[i] \in {offset_map[d] : d \in DOMAIN offset_map}
                 /\ r.offsets[j] # Zero
                 /\ r.offsets[j] \notin {offset_map[d] : d \in DOMAIN offset_map}
    /\ \E o \in EntriesOfType(buf, TYPE_LINK) : ~Clean(Link_read_from(buf, o).val.value)
    /\ ScanClean(buf)

\* C8: during a flush that writes the dirty subgraph children first and
\* records offset_map[dirty] = writer position before any referrer is
\* written, every dirty offset of the node to be written next is a key of
\* offset_map, so is the root when the Root record is due, and the abort on an
\* unresolved dirty offset is never reached.
C8_FlushOrder ==
    /\ pc # "aborted"
    /\ pc = "flushing"
       => IF todo # <<>>
          THEN \A v \in Contained(dirty[DirtyIndex(Head(todo))]) :
                  ~Clean(v) => v \in DOMAIN offset_map
          ELSE root \in DOMAIN offset_map

\* a flush has just written a Radix with a dirty and a clean child
C8_Witness ==
    /\ pc = "flushing"
    /\ Cardinality(DOMAIN offset_map) >= 3
    /\ rec.kind = "Radix"
    /\ \E i, j \in 0 .. (RadixChildren - 1) :
          /\ rec.offsets[i] \in DOMAIN offset_map
          /\ Clean(rec.offsets[j]) /\ rec.offsets[j] # Zero


----------------------------------------------------------------------------
(* Lookup against the sequence of inserts *)

\* the values inserted for key k, newest first, read off the inserts made
RECURSIVE NewestFirst(_, _)
NewestFirst(h, k) ==
    IF h = <<>>
    THEN <<>>
    ELSE (IF h[Len(h)][1] = k THEN <<h[Len(h)][2]>> ELSE <<>>)
         \o NewestFirst(SubSeq(h, 1, Len(h) - 1), k)

\* the keys looked up: the keys that may be inserted, the empty key, an
\* extension of "ab", a key that leaves "ab" at its last nibble ("ac"), a key
\* that shares only the first nibble ("b") and one that shares none ("1")
ProbeKeys == Keys \cup {<<>>, <<97, 98, 99>>, <<97, 99>>, <<98>>, <<49>>}

\* C12: after any sequence of inserts, with flushes interleaved at any points,
\* lookup(k) returns exactly the values inserted for k, newest first, and the
\* empty sequence for every key never inserted, including proper prefixes and
\* extensions of inserted keys.
C12_LookupInsert ==
    \A k \in ProbeKeys : Lookup(dirty, buf, root, k) = NewestFirst(history, k)

C12_Witness ==
    /\ pc = "idle"
    /\ Len(buf) > 1
    /\ IsDirty(root)
    /\ Len(history) = MaxInserts
    /\ Len(Lookup(dirty, buf, root, KeyA)) = 2
    /\ Len(Lookup(dirty, buf, root, KeyAB)) = 1
    /\ Lookup(dirty, buf, root, KeyA)[1] # Lookup(dirty, buf, root, KeyA)[2]
    /\ Lookup(dirty, buf, root, KeyC) = <<>>
    /\ \E i \in 1 .. Len(dirty) :
          /\ dirty[i].kind = "Link"
          /\ dirty[i].next_link_offset # Zero
          /\ ~IsDirty(dirty[i].next_link_offset)


----------------------------------------------------------------------------
(* Crash safety *)

\* lookup on the index that open returned
OpenedLookup(k) ==
    IF result.out.val.empty THEN Ok(<<>>) ELSE ReadLookup(buf, root, k)

\* the opened index holds exactly the inserts h
OpenedIs(h) ==
    /\ result.out.tag = "Ok"
    /\ \A k \in ProbeKeys : OpenedLookup(k) = Ok(NewestFirst(h, k))

\* C13: a file cut at any byte position at or after the end of the last
\* successful flush F1, and before the next flush completes, opens on F1's
\* Root and every lookup returns the state as of F1; a cut into F1 gives an
\* earlier state or an open error, never a tree that mixes states.
C13_CrashSafety ==
    (pc = "reopened" /\ durable # <<>>)
    => IF result.offset >= durable[Len(durable)].len
       THEN /\ result.out.tag = "Ok"
            /\ ~result.out.val.empty
            /\ result.out.val.radix_offset = durable[Len(durable)].root
            /\ OpenedIs(durable[Len(durable)].history)
       ELSE \/ result.out.tag # "Ok"
            \/ OpenedIs(<<>>)
            \/ \E i \in 1 .. (Len(durable) - 1) : OpenedIs(durable[i].history)


----------------------------------------------------------------------------
(* Snapshot isolation *)

\* a reader holding the root offset of flush f reads that flush's inserts
\* from the file b
SnapshotReads(b, f) ==
    \A k \in ProbeKeys : ReadLookup(b, f.root, k) = Ok(NewestFirst(f.history, k))

\* C14: no insert or flush changes a byte below the file length it started
\* from (the file only grows), and a reader holding a root offset from an
\* earlier flush gets that flush's lookup results for every key before,
\* during and after later inserts and flushes of the writer.
\* (A step that leaves the file as it is leaves every read of it as it is:
\* the reads are stated for the steps that write.)
C14_SnapshotIsolation ==
    [][/\ Len(buf') >= Len(buf)
       /\ SubSeq(buf', 1, Len(buf)) = buf
       /\ buf' # buf =>
             \A i \in 1 .. Len(durable') : SnapshotReads(buf', durable'[i])]_vars

C14_Witness ==
    /\ pc = "flushing"
    /\ Len(durable) >= 2
    /\ Len(buf) > durable[Len(durable)].len
    /\ SnapshotReads(buf, durable[1])
    /\ ReadLookup(buf, durable[1].root, KeyA).tag = "Ok"
    /\ Len(ReadLookup(buf, durable[1].root, KeyA).val) = 1
    /\ Len(ReadLookup(buf, durable[2].root, KeyA).val) = 2
    /\ Len(Lookup(dirty, buf, root, KeyAB)) = 1
    /\ ReadLookup(buf, durable[2].root, KeyAB) = Ok(<<>>)


----------------------------------------------------------------------------
(* The configuration poller *)

\* the documents that are a ServerConfig, and the ServerConfig each one is
ValidDocs == {DocDefault, DocLimits}

ExpectedConfig(c) ==
    IF c = DocLimits
    THEN [track_bytes_sent |-> TRUE, enable_consistent_routing |-> FALSE,
          max_bytes_sent_5s |-> [some |-> TRUE, v |-> 100],
          max_bytes_sent_15s |-> [some |-> FALSE, v |-> 0]]
    ELSE [track_bytes_sent |-> FALSE, enable_consistent_routing |-> FALSE,
          max_bytes_sent_5s |-> [some |-> FALSE, v |-> 0],
          max_bytes_sent_15s |-> [some |-> FALSE, v |-> 0]]

\* what is stored when the entity e has been accepted
StoredFor(e) ==
    [mod_time |-> e.mod_time, version |-> e.version, config |-> ExpectedConfig(e.contents)]

\* the polled entity differs from the stored one in mod_time or in version
Differs(e, stored) == e.mod_time # stored.mod_time \/ e.version # stored.version

C16_MaybeUpdate ==
    [][/\ (ppc = "compare" /\ ppc' # "compare") =>
             IF ~Differs(entity, inner)
             THEN ppc' = "outcome" /\ outcome' = [tag |-> "Ok", val |-> NoneU64]
             ELSE IF entity.contents \in ValidDocs
                  THEN ppc' = "wlock"
                  ELSE ppc' = "outcome" /\ outcome'.tag = "Err"
       /\ (ppc = "wlock" /\ ppc' # "wlock") => ppc' = "write1"
       /\ (ppc = "write1" /\ ppc' # "write1") => ppc' = "write2"
       /\ (ppc = "write2" /\ ppc' # "write2") => ppc' = "write3"
       /\ (ppc = "write3" /\ ppc' # "write3") =>
             /\ ppc' = "outcome"
             /\ inner' = StoredFor(entity)
             /\ outcome' = [tag |-> "Ok", val |-> [some |-> TRUE, v |-> entity.mod_time]]
       /\ inner' # inner => ppc \in {"write1", "write2", "write3"}
       /\ (loader = "File" /\ ppc = "compare" /\ ppc' # "compare"
           /\ entity.contents \in ValidDocs
           /\ ExpectedConfig(entity.contents) # inner.config) => ppc' = "wlock"]_vars

C16_Witness ==
    /\ loader = "File"
    /\ ppc = "outcome"
    /\ outcome = [tag |-> "Ok", val |-> [some |-> TRUE, v |-> inner.mod_time]]
    /\ inner = StoredFor(entity)
    /\ inner.mod_time = 0
    /\ installed.count = 2
    /\ \E r \in Readers : got[r].count = 1 /\ got[r].config # inner.config

\* C17: when a poll fails, because loader.load returns an error or because the
\* contents of the polled entity do not parse, the stored (mod_time, version,
\* config) is unchanged and the poller thread keeps running; a later poll that
\* succeeds with a changed entity still updates the config.
C17_FailedPoll ==
    [][/\ (ppc # "outcome" /\ ppc' = "outcome" /\ outcome'.tag = "Err") =>
             /\ inner' = inner
             /\ lock' = lock
             /\ ppc \in {"load", "compare"}
       /\ (ppc = "compare" /\ ppc' # "compare" /\ entity.contents \notin ValidDocs
           /\ Differs(entity, inner)) =>
             (ppc' = "outcome" /\ outcome'.tag = "Err" /\ inner' = inner)
       /\ (ppc = "outcome" /\ ppc' # "outcome") => ppc' = "top"
       /\ (ppc = "top" /\ ppc' # "top" /\ ~will_exit) => ppc' = "check"
       /\ (outcome.tag = "Err" /\ ppc = "compare" /\ ppc' # "compare"
           /\ Differs(entity, inner) /\ entity.contents \in ValidDocs) =>
             ppc' = "wlock"
       /\ (outcome.tag = "Err" /\ ppc = "write3" /\ ppc' # "write3") =>
             inner' = StoredFor(entity)]_vars

C17_Witness ==
    /\ ppc = "write3"
    /\ outcome.tag = "Err"
    /\ inner.mod_time = entity.mod_time
    /\ inner.version = entity.version
    /\ inner.config # ExpectedConfig(entity.contents)
    /\ ~will_exit

\* C18: under any interleaving of get calls of reader threads with the
\* maybe_update of the poller thread, every get returns the complete config of
\* one successfully parsed entity, the stored mod_time, version and config
\* come from the same entity, and successive gets of one reader never return
\* an older config after a newer one.
C18_ConsistentReads ==
    /\ [](~lock.writer =>
             /\ installed.entity.contents \in ValidDocs
             /\ inner = StoredFor(installed.entity))
    /\ [][\A r \in Readers :
            got'[r] # got[r] =>
               /\ got'[r].config = ExpectedConfig(installed.entity.contents)
               /\ got'[r].count = installed.count
               /\ got'[r].count >= got[r].count]_vars

C18_Witness ==
    /\ ppc = "wlock"
    /\ lock.readers # {}
    /\ \E r \in Readers :
          /\ rpc[r] = "reading"
          /\ got[r].count = 1
          /\ got[r].config # ExpectedConfig(entity.contents)
          /\ got[r].config = inner.config

============================================================================
